---- MODULE Spec2Model ----
\* socow_vector<T, SMALL_SIZE>: a vector with small-size optimisation and
\* copy-on-write sharing of reference-counted heap buffers
\* (src/socow-vector.h).  A fixed set of named instances lives over one heap;
\* every public operation is one action, computed by operators that follow
\* the member functions statement by statement, including the exceptional
\* paths (a throwing element copy, a failing allocation) and the destructors
\* of the temporaries they unwind.
\*
\* Elements are values of 1..NumVal.  An element is copied where the code
\* copy-constructs one (std::uninitialized_copy[_n], placement new) and only
\* there can the injected fault strike; std::swap of two elements exchanges
\* the two slots and does not throw; destructors do not throw.
EXTENDS Integers, Sequences, FiniteSets, TLC

\* ---------------------------------------------------------------- bounds
NumInst == 3
SmallSize == 1
NumVal == 2
MaxSize == 2
MaxCap == 3
\* the second specification: fewer instances, longer vectors
DeepInst == 2
DeepSmall == 2
DeepSize == 3
DeepCap == 4

Slots == 1..NumInst
\* temporaries of the member functions
T1 == NumInst + 1      \* tmp of insert / erase
T2 == NumInst + 2      \* tmp of swap
T3 == NumInst + 3      \* tmp of operator= (both small)
AllInst == 1..(NumInst + 3)
Val == 1..NumVal
Uninit == 0            \* what a read of a never-constructed slot yields
NullBuf == 0           \* buf_ bits while the union holds small_
BufIds == 1..(NumInst + 1)
HeapDom == 0..(NumInst + 1)

\* SMALL_SIZE is the template parameter: chosen at instantiation, then fixed.
\* inst and heap are the instances and the heap buffers, err the first
\* memory error any call has made, last the record of the call in progress.
VARIABLES SMALL_SIZE, inst, heap, last, err
vars == <<SMALL_SIZE, inst, heap, last, err>>

\* ------------------------------------------------------- data structures
\* class buffer: capacity_, ref_count_, data_[] (the constructed prefix)
FreeBuf == [alive |-> FALSE, capacity_ |-> 0, ref_count_ |-> 0, data_ |-> <<>>]
\* class socow_vector: size_, is_small_, union { buf_, small_[SMALL_SIZE] }
EmptyInst == [live |-> TRUE, size_ |-> 0, is_small_ |-> TRUE, buf_ |-> NullBuf, small_ |-> <<>>]
DeadInst == [live |-> FALSE, size_ |-> 0, is_small_ |-> TRUE, buf_ |-> NullBuf, small_ |-> <<>>]

Min(a, b) == IF a <= b THEN a ELSE b

\* elements [a, b) of the slot array d (0-based, as the pointer arithmetic)
Slice(d, a, b) == [k \in 1..(b - a) |-> IF a + k <= Len(d) THEN d[a + k] ELSE Uninit]

\* the first memory error of a run is kept
Fail(s, e) == IF s.err = "ok" THEN [s EXCEPT !.err = e] ELSE s

\* the state an operation starts from: thr = the element copy that throws
\* (0: none), afail = the allocation fails
Start(thr, afail) ==
  [inst |-> [i \in AllInst |-> IF i \in Slots THEN inst[i] ELSE DeadInst],
   heap |-> heap, exc |-> "none", thr |-> thr, afail |-> afail,
   copies |-> 0, destroyed |-> 0, allocs |-> 0, frees |-> 0, err |-> err]

\* ------------------------------------------------------------- accessors
size(s, i) == s.inst[i].size_

capacity(s, i) ==
  IF s.inst[i].is_small_ THEN SMALL_SIZE ELSE s.heap[s.inst[i].buf_].capacity_

\* const data(): the slots of the storage the instance points to
cdata(s, i) ==
  IF s.inst[i].is_small_ THEN s.inst[i].small_ ELSE s.heap[s.inst[i].buf_].data_

shared_buf_never(s, i) == FALSE
shared_buf(s, i) ==
  ~s.inst[i].is_small_ /\ s.heap[s.inst[i].buf_].ref_count_ > 1

\* ------------------------------------------------- element-level helpers
\* the copy constructor throws on copy number thr of the operation
Throws(s, n) == s.thr # 0 /\ s.copies < s.thr /\ s.thr <= s.copies + n

\* operator new fails / succeeds with the lowest free address
NextFree(s) ==
  IF \E b \in BufIds : ~s.heap[b].alive
  THEN CHOOSE b \in BufIds : ~s.heap[b].alive /\ \A c \in BufIds : c < b => s.heap[c].alive
  ELSE NullBuf

create_buf_nothrow(s, cap) ==
  IF s.exc # "none" \/ s.afail \/ NextFree(s) = NullBuf THEN s
  ELSE [s EXCEPT !.heap[NextFree(s)] =
                    [alive |-> TRUE, capacity_ |-> cap, ref_count_ |-> 1, data_ |-> <<>>],
                 !.allocs = @ + 1]
create_buf(s, cap) ==
  IF s.exc # "none" THEN s
  ELSE IF s.afail \/ NextFree(s) = NullBuf THEN [s EXCEPT !.exc = "alloc"]
  ELSE [s EXCEPT !.heap[NextFree(s)] =
                    [alive |-> TRUE, capacity_ |-> cap, ref_count_ |-> 1, data_ |-> <<>>],
                 !.allocs = @ + 1]

\* buf->~buffer(); operator delete(buf)
delete_buf(s, b) ==
  IF ~s.heap[b].alive THEN Fail(s, "double_free")
  ELSE [s EXCEPT !.heap[b] = FreeBuf, !.frees = @ + 1]

\* std::uninitialized_copy_n(vals, small_ + off) of instance i: all or nothing
copy_into_small(s, i, off, vals) ==
  IF s.exc # "none" \/ Len(vals) = 0 THEN s
  ELSE IF Throws(s, Len(vals))
  THEN [s EXCEPT !.exc = "copy", !.destroyed = @ + (s.thr - s.copies - 1),
                 !.copies = s.thr]
  ELSE LET t == [s EXCEPT !.inst[i].small_ = @ \o vals, !.copies = @ + Len(vals)]
       IN  IF off # Len(s.inst[i].small_) THEN Fail(t, "construct_misplaced")
           ELSE IF off + Len(vals) > SMALL_SIZE THEN Fail(t, "overflow")
           ELSE t

\* std::uninitialized_copy_n(vals, b->data() + off): all or nothing
copy_into_buf(s, b, off, vals) ==
  IF s.exc # "none" \/ Len(vals) = 0 THEN s
  ELSE IF Throws(s, Len(vals))
  THEN [s EXCEPT !.exc = "copy", !.destroyed = @ + (s.thr - s.copies - 1),
                 !.copies = s.thr]
  ELSE LET t == [s EXCEPT !.heap[b].data_ = @ \o vals, !.copies = @ + Len(vals)]
       IN  IF ~s.heap[b].alive THEN Fail(s, "use_after_free")
           ELSE IF s.heap[b].ref_count_ > 1 THEN Fail(t, "shared_write")
           ELSE IF off # Len(s.heap[b].data_) THEN Fail(t, "construct_misplaced")
           ELSE IF off + Len(vals) > s.heap[b].capacity_ THEN Fail(t, "overflow")
           ELSE t

\* construction through the instance's mutable pointer (private storage)
copy_into(s, i, off, vals) ==
  IF s.inst[i].is_small_ THEN copy_into_small(s, i, off, vals)
  ELSE copy_into_buf(s, s.inst[i].buf_, off, vals)

\* std::destroy(p + from, p + to) on the storage of instance i
destroy_range(s, i, from, to) ==
  IF to <= from THEN s
  ELSE LET d == cdata(s, i)
           t == IF s.inst[i].is_small_
                THEN [s EXCEPT !.inst[i].small_ = Slice(d, 0, Min(from, Len(d))),
                               !.destroyed = @ + (to - from)]
                ELSE [s EXCEPT !.heap[s.inst[i].buf_].data_ = Slice(d, 0, Min(from, Len(d))),
                               !.destroyed = @ + (to - from)]
       IN  IF ~s.inst[i].is_small_ /\ ~s.heap[s.inst[i].buf_].alive
           THEN Fail(s, "use_after_free")
           ELSE IF ~s.inst[i].is_small_ /\ s.heap[s.inst[i].buf_].ref_count_ > 1
           THEN Fail(t, "shared_write")
           ELSE IF to # Len(d) THEN Fail(t, "destroy_mismatch")
           ELSE t

\* std::swap(p[a], p[b]) on the storage of instance i (0-based)
swap_slots(s, i, a, b) ==
  LET d == cdata(s, i)
      e == [k \in 1..Len(d) |-> IF k = a + 1 THEN d[b + 1]
                                ELSE IF k = b + 1 THEN d[a + 1] ELSE d[k]]
  IN  IF a >= Len(d) \/ b >= Len(d) THEN Fail(s, "uninitialized_access")
      ELSE IF s.inst[i].is_small_ THEN [s EXCEPT !.inst[i].small_ = e]
      ELSE IF s.heap[s.inst[i].buf_].ref_count_ > 1
      THEN Fail([s EXCEPT !.heap[s.inst[i].buf_].data_ = e], "shared_write")
      ELSE [s EXCEPT !.heap[s.inst[i].buf_].data_ = e]

\* a store of the slot array d through the instance's mutable pointer
put_data(s, i, d) ==
  IF s.inst[i].is_small_ THEN [s EXCEPT !.inst[i].small_ = d]
  ELSE IF s.heap[s.inst[i].buf_].ref_count_ > 1
  THEN Fail([s EXCEPT !.heap[s.inst[i].buf_].data_ = d], "shared_write")
  ELSE [s EXCEPT !.heap[s.inst[i].buf_].data_ = d]

\* std::swap_ranges(x.begin(), x.begin() + n, y.begin())
swap_ranges(s, x, y, n) ==
  LET dx == cdata(s, x)
      dy == cdata(s, y)
      ex == [k \in 1..Len(dx) |-> IF k <= n /\ k <= Len(dy) THEN dy[k] ELSE dx[k]]
      ey == [k \in 1..Len(dy) |-> IF k <= n /\ k <= Len(dx) THEN dx[k] ELSE dy[k]]
  IN  IF n = 0 THEN s
      ELSE IF n > Len(dx) \/ n > Len(dy) THEN Fail(s, "uninitialized_access")
      ELSE put_data(put_data(s, x, ex), y, ey)

\* ------------------------------------------------ storage and lifetime
\* the statement size_ = n of instance i
set_size(s, i, n) == IF s.exc # "none" THEN s ELSE [s EXCEPT !.inst[i].size_ = n]

release_ref_no_free(s, i, b) ==
  IF ~s.heap[b].alive THEN Fail(s, "use_after_free")
  ELSE [s EXCEPT !.heap[b].ref_count_ = @ - 1]
release_ref(s, i, b) ==
  IF ~s.heap[b].alive THEN Fail(s, "use_after_free")
  ELSE IF s.heap[b].ref_count_ - 1 = 0
  THEN LET t == delete_buf([s EXCEPT !.destroyed = @ + size(s, i)], b)
       IN  IF size(s, i) # Len(s.heap[b].data_) THEN Fail(t, "destroy_mismatch") ELSE t
  ELSE [s EXCEPT !.heap[b].ref_count_ = @ - 1]

container_destroy(s, i) ==
  IF s.inst[i].is_small_ THEN destroy_range(s, i, 0, size(s, i))
  ELSE release_ref(s, i, s.inst[i].buf_)

\* the storage of instance i goes away; inline elements that outlive their
\* instance are a leak
end_lifetime(s, i) ==
  IF s.inst[i].is_small_ /\ Len(s.inst[i].small_) > 0
  THEN Fail([s EXCEPT !.inst[i] = DeadInst], "element_leak")
  ELSE [s EXCEPT !.inst[i] = DeadInst]

\* ~socow_vector()
dtor(s, i) == end_lifetime(container_destroy(s, i), i)

\* the end of the scope of temporary t: destroyed if it was constructed
scope_exit(s, t) == IF s.inst[t].live THEN dtor(s, t) ELSE s

\* size_(0), is_small_(false), buf_ = b
big_init(s, t, b) ==
  IF s.exc # "none" THEN s
  ELSE [s EXCEPT !.inst[t] = [live |-> TRUE, size_ |-> 0, is_small_ |-> FALSE,
                              buf_ |-> b, small_ |-> <<>>]]

\* socow_vector(std::size_t capacity): Big from the start
big_ctor(s, t, cap) == big_init(create_buf(s, cap), t, NextFree(s))

\* catch (...) { buf_ = tmp; throw; }
copy_to_small_catch_nothing(c, i, tmp) == c
copy_to_small_catch(c, i, tmp) == [c EXCEPT !.inst[i].buf_ = tmp]

\* after the copies: the catch block, or is_small_ = true; release_ref(tmp).
\* Once is_small_ is set the pointer bits are no longer a pointer (NullBuf)
copy_to_small_end(c, i, tmp) ==
  IF c.exc # "none" THEN copy_to_small_catch(c, i, tmp)
  ELSE release_ref([c EXCEPT !.inst[i].is_small_ = TRUE, !.inst[i].buf_ = NullBuf], i, tmp)

\* the copies land in small_, which overlays buf_: the pointer is saved in tmp
copy_to_small(s, i, from, n) ==
  IF s.exc # "none" THEN s
  ELSE copy_to_small_end(
         copy_into_small([s EXCEPT !.inst[i].buf_ = IF n > 0 THEN NullBuf ELSE @],
                         i, 0, Slice(from, 0, n)),
         i, s.inst[i].buf_)

\* after the copies: the catch block, or container_destroy(); is_small_ =
\* false; buf_ = new_buf
unshare_end(c, i, new_buf) ==
  IF c.exc # "none" THEN delete_buf(c, new_buf)
  ELSE [container_destroy(c, i) EXCEPT !.inst[i].is_small_ = FALSE, !.inst[i].buf_ = new_buf]

\* after create_buf: the copies into new_buf
unshare_copy(a, i, new_buf) ==
  IF a.exc # "none" THEN a
  ELSE unshare_end(copy_into_buf(a, new_buf, 0, Slice(cdata(a, i), 0, size(a, i))), i, new_buf)

unshare(s, i, new_capacity) ==
  IF s.exc # "none" THEN s
  ELSE unshare_copy(create_buf(s, new_capacity), i, NextFree(s))

\* non-const data(), and with it begin(), end(), operator[], front(), back()
data_tight(s, i) ==
  IF s.exc # "none" \/ ~shared_buf(s, i) THEN s
  ELSE unshare(s, i, size(s, i))
data(s, i) ==
  IF s.exc # "none" \/ ~shared_buf(s, i) THEN s
  ELSE unshare(s, i, capacity(s, i))

\* ----------------------------------------------------------- operator=
\* buf_ = other.buf_; buf_->ref_count_++; is_small_ = false
share_buf_deep(s, a, b) ==
  [copy_into_buf(create_buf(s, capacity(s, b)), NextFree(s), 0,
                 Slice(cdata(s, b), 0, size(s, b)))
     EXCEPT !.inst[a].buf_ = NextFree(s), !.inst[a].is_small_ = FALSE]
share_buf(s, a, b) ==
  IF ~s.heap[s.inst[b].buf_].alive THEN Fail(s, "use_after_free")
  ELSE [s EXCEPT !.inst[a].buf_ = s.inst[b].buf_,
                 !.heap[s.inst[b].buf_].ref_count_ = @ + 1,
                 !.inst[a].is_small_ = FALSE]

\* other is Big: lines 69-73
assign_from_big(s, a, b) == share_buf(container_destroy(s, a), a, b)

\* both Small, lines 77-80: tmp (T3) takes the common prefix of other
assign_tmp(s, b, min_size) ==
  set_size(copy_into(s, T3, 0, Slice(cdata(s, b), 0, min_size)), T3, min_size)

\* lines 82-86: the tail of other is constructed, or the surplus destroyed
assign_tail(s, a, b) ==
  IF s.exc # "none" THEN s
  ELSE IF size(s, a) < size(s, b)
  THEN copy_into(s, a, size(s, a), Slice(cdata(s, b), size(s, a), size(s, b)))
  ELSE destroy_range(s, a, size(s, b), size(s, a))

\* lines 87-88: size_ = other.size(); swap_ranges(begin(), begin() + min_size, tmp.begin())
assign_prefix(s, a, b, min_size) ==
  IF s.exc # "none" THEN s
  ELSE swap_ranges([s EXCEPT !.inst[a].size_ = size(s, b)], a, T3, min_size)

\* both Small: lines 76-89
assign_small_small_no_prefix(s, a, b) == set_size(assign_tail(s, a, b), a, size(s, b))
assign_small_small(s, a, b) ==
  dtor(assign_prefix(assign_tail(assign_tmp([s EXCEPT !.inst[T3] = EmptyInst], b,
                                            Min(size(s, a), size(s, b))),
                                 a, b),
                     a, b, Min(size(s, a), size(s, b))),
       T3)

\* line 90: size_ = other.size()
assign_size_skip(s, a, b) == s
assign_size(s, a, b) == set_size(s, a, size(s, b))

operator_assign(s, a, b) ==
  IF s.exc # "none" \/ a = b THEN s
  ELSE assign_size(IF ~s.inst[b].is_small_ THEN assign_from_big(s, a, b)
                   ELSE IF ~s.inst[a].is_small_
                   THEN copy_to_small(s, a, cdata(s, b), size(s, b))
                   ELSE assign_small_small(s, a, b),
                   a, b)

\* a throwing constructor body runs the destructor of the delegated-to
\* socow_vector()
ctor_unwind(s, a) == IF s.exc # "none" THEN dtor(s, a) ELSE s

\* socow_vector(const socow_vector&): socow_vector() { *this = other; }
copy_ctor(s, a, b) ==
  IF s.exc # "none" THEN s
  ELSE ctor_unwind(operator_assign([s EXCEPT !.inst[a] = EmptyInst], a, b), a)

\* ----------------------------------------------------------------- swap
\* lines 265-267, nx = size(), ny = other.size() at entry
swap_small_end(s, x, y, nx, ny) ==
  IF s.exc # "none" THEN s
  ELSE swap_ranges([destroy_range(s, y, nx, ny)
                      EXCEPT !.inst[x].size_ = ny, !.inst[y].size_ = nx],
                   x, y, nx)

\* both Small, size(x) <= size(y): lines 263-269
swap_small(s, x, y) ==
  swap_small_end(copy_into(s, x, size(s, x), Slice(cdata(s, y), size(s, x), size(s, y))),
                 x, y, size(s, x), size(s, y))

\* at least one Big, size(x) <= size(y): lines 271-273, tmp is T2
swap_fallback_no_back(s, x, y) ==
  scope_exit(operator_assign(copy_ctor(s, T2, y), y, x), T2)
swap_fallback(s, x, y) ==
  scope_exit(operator_assign(operator_assign(copy_ctor(s, T2, y), y, x), x, T2), T2)

swap_ordered(s, x, y) ==
  IF s.inst[x].is_small_ /\ s.inst[y].is_small_ THEN swap_small(s, x, y)
  ELSE swap_fallback(s, x, y)

swap_unordered(s, a, b) ==
  IF s.exc # "none" \/ a = b THEN s
  ELSE swap_ordered(s, a, b)
swap(s, a, b) ==
  IF s.exc # "none" \/ a = b THEN s
  ELSE IF size(s, a) > size(s, b) THEN swap_ordered(s, b, a)
  ELSE swap_ordered(s, a, b)

\* --------------------------------------------------------------- insert
\* size() != capacity() ? capacity() : capacity() * 2
grow_capacity_same(s, i) == capacity(s, i)
grow_capacity_double(s, i) == capacity(s, i) * 2
grow_capacity(s, i) ==
  IF size(s, i) # capacity(s, i) THEN capacity(s, i) ELSE capacity(s, i) * 2

\* lines 280-281: the elements before pos go to tmp (T1)
insert_head(s, i, diff) ==
  set_size(copy_into(s, T1, 0, Slice(cdata(s, i), 0, diff)), T1, diff)

\* lines 282-283: new (tmp.end()) T(value); tmp.size_++
insert_value(s, value) ==
  set_size(copy_into(s, T1, size(s, T1), <<value>>), T1, size(s, T1) + 1)

\* lines 284-285: the elements from pos on go to tmp
insert_tail(s, i, diff) ==
  set_size(copy_into(s, T1, size(s, T1), Slice(cdata(s, i), diff, size(s, i))),
           T1, size(s, i) + 1)

\* full or shared: lines 279-286, tmp dies at the end of the block
insert_realloc(s, i, diff, value) ==
  scope_exit(
    operator_assign(
      insert_tail(insert_value(insert_head(big_ctor(s, T1, grow_capacity(s, i)), i, diff),
                               value),
                  i, diff),
      i, T1),
    T1)

\* while (idx > diff) std::swap(data()[idx], data()[idx - 1])
RECURSIVE bubble(_, _, _, _)
bubble(s, i, idx, diff) ==
  IF idx > diff THEN bubble(swap_slots(s, i, idx, idx - 1), i, idx - 1, diff) ELSE s

\* lines 289-294: size_++; idx = size() - 1; the loop
insert_bubble_stay(s, i, diff) == set_size(s, i, size(s, i) + 1)
insert_bubble(s, i, diff) ==
  IF s.exc # "none" THEN s
  ELSE bubble([s EXCEPT !.inst[i].size_ = @ + 1], i, size(s, i), diff)

\* private with room: lines 288-294
insert_inplace(s, i, diff, value) ==
  insert_bubble(copy_into(s, i, size(s, i), <<value>>), i, diff)

\* insert(pos, value), diff = pos - begin(); the result is begin() + diff
insert(s, i, diff, value) ==
  data(IF size(s, i) = capacity(s, i) \/ shared_buf(s, i)
       THEN insert_realloc(s, i, diff, value)
       ELSE insert_inplace(s, i, diff, value),
       i)

push_back(s, i, value) == insert(s, i, size(s, i), value)

\* const T& value bound to element k of the vector itself: what the
\* reference designates when the copy constructor reads it
ref_value(s, i, k) == IF k < Len(cdata(s, i)) THEN cdata(s, i)[k + 1] ELSE Uninit

\* lines 282-283 with value = (*this)[k]
insert_value_self(s, i, k) == insert_value(s, ref_value(s, i, k))

insert_realloc_self(s, i, diff, k) ==
  scope_exit(
    operator_assign(
      insert_tail(insert_value_self(insert_head(big_ctor(s, T1, grow_capacity(s, i)), i, diff),
                                    i, k),
                  i, diff),
      i, T1),
    T1)

\* line 288 with value = (*this)[k], then lines 289-294
insert_inplace_self(s, i, diff, k) ==
  insert_bubble(copy_into(s, i, size(s, i), <<ref_value(s, i, k)>>), i, diff)

\* insert(pos, (*this)[k])
insert_self(s, i, diff, k) ==
  data(IF size(s, i) = capacity(s, i) \/ shared_buf(s, i)
       THEN insert_realloc_self(s, i, diff, k)
       ELSE insert_inplace_self(s, i, diff, k),
       i)

\* ---------------------------------------------------------------- erase
\* lines 312-313: the elements before first go to tmp (T1)
erase_head(s, i, left) ==
  set_size(copy_into(s, T1, 0, Slice(cdata(s, i), 0, left)), T1, left)

\* lines 314-315: the elements from last on go to tmp
erase_tail_keep(s, i, left, right) ==
  set_size(copy_into(s, T1, left, Slice(cdata(s, i), left, size(s, i) - (right - left))),
           T1, size(s, i) - (right - left))
erase_tail(s, i, left, right) ==
  set_size(copy_into(s, T1, left, Slice(cdata(s, i), right, size(s, i))),
           T1, size(s, i) - (right - left))

\* shared: lines 310-318, tmp is alive across return begin() + diff
erase_shared(s, i, left, right) ==
  scope_exit(
    data(swap(erase_tail(erase_head(big_ctor(s, T1, capacity(s, i)), i, left),
                         i, left, right),
              i, T1),
         i),
    T1)

\* while (right < size()) std::swap(data()[left++], data()[right++])
RECURSIVE shift_left(_, _, _, _)
shift_left(s, i, left, right) ==
  IF right < size(s, i)
  THEN shift_left(swap_slots(s, i, left, right), i, left + 1, right + 1)
  ELSE s

\* lines 324-325: std::destroy(end() - n, end()); size_ -= n
erase_trim(s, i, n) ==
  [destroy_range(s, i, size(s, i) - n, size(s, i)) EXCEPT !.inst[i].size_ = @ - n]

\* private: lines 319-326
erase_private_no_shift(s, i, left, right) == erase_trim(s, i, right - left)
erase_private(s, i, left, right) ==
  erase_trim(shift_left(s, i, left, right), i, right - left)

\* erase(first, last), left = first - begin(), right = last - begin()
erase(s, i, left, right) ==
  IF left = right THEN data(s, i)
  ELSE IF shared_buf(s, i) THEN erase_shared(s, i, left, right)
  ELSE erase_private(s, i, left, right)

pop_back(s, i) == erase(s, i, size(s, i) - 1, size(s, i))

\* ------------------------------------------------------------- capacity
reserve_no_demote(s, i, new_capacity) ==
  IF new_capacity > size(s, i) /\ (shared_buf(s, i) \/ new_capacity > capacity(s, i))
  THEN unshare(s, i, new_capacity)
  ELSE s
reserve(s, i, new_capacity) ==
  IF new_capacity > size(s, i)
  THEN IF shared_buf(s, i) /\ new_capacity <= SMALL_SIZE
       THEN copy_to_small(s, i, s.heap[s.inst[i].buf_].data_, size(s, i))
       ELSE IF shared_buf(s, i) \/ new_capacity > capacity(s, i)
       THEN unshare(s, i, new_capacity)
       ELSE s
  ELSE s

shrink_to_fit_keep_big(s, i) ==
  IF ~s.inst[i].is_small_ /\ capacity(s, i) > size(s, i)
  THEN unshare(s, i, size(s, i))
  ELSE s
shrink_to_fit(s, i) ==
  IF ~s.inst[i].is_small_ /\ capacity(s, i) > size(s, i)
  THEN IF size(s, i) <= SMALL_SIZE
       THEN copy_to_small(s, i, s.heap[s.inst[i].buf_].data_, size(s, i))
       ELSE unshare(s, i, size(s, i))
  ELSE s

\* lines 245-250: the shared buffer is let go, or the elements destroyed
clear_storage_keep_big(s, i) ==
  IF shared_buf(s, i) THEN release_ref(s, i, s.inst[i].buf_)
  ELSE destroy_range(s, i, 0, size(s, i))
clear_storage(s, i) ==
  IF shared_buf(s, i)
  THEN [release_ref(s, i, s.inst[i].buf_) EXCEPT !.inst[i].is_small_ = TRUE,
                                                  !.inst[i].buf_ = NullBuf]
  ELSE destroy_range(s, i, 0, size(s, i))

clear(s, i) == [clear_storage(s, i) EXCEPT !.inst[i].size_ = 0]

\* the store through the reference operator[] returned
store(s, i, index, value) ==
  IF s.exc # "none" THEN s
  ELSE put_data(s, i, [k \in 1..Len(cdata(s, i)) |->
                         IF k = index + 1 THEN value ELSE cdata(s, i)[k]])

\* operator[](index) = value
subscript_store(s, i, index, value) == store(data(s, i), i, index, value)

\* ============================================================== actions
\* A public call runs to completion in one step and leaves its record in
\* `last` (the call, its arguments, how it ended, what it cost and the
\* program state it started from); Return hands control back to the caller.
NoCall ==
  [op |-> "none", who |-> 0, other |-> 0, p |-> 0, q |-> 0, v |-> 0,
   fault |-> 0, exc |-> "none",
   copies |-> 0, destroyed |-> 0, allocs |-> 0, frees |-> 0,
   pre |-> [inst |-> <<>>, heap |-> <<>>]]

Live(i) == inst[i].live

\* operator new may return any address: buffers are renamed in the order of
\* the first instance that points to them, then the unreferenced ones
RECURSIVE AddrOrder(_, _, _)
AddrOrder(s, k, acc) ==
  IF k > NumInst + (NumInst + 1) THEN acc
  ELSE LET b == IF k <= NumInst
                THEN (IF s.inst[k].is_small_ THEN NullBuf ELSE s.inst[k].buf_)
                ELSE (IF s.heap[k - NumInst].alive THEN k - NumInst ELSE NullBuf)
       IN  AddrOrder(s, k + 1,
                     IF b = NullBuf \/ \E n \in 1..Len(acc) : acc[n] = b
                     THEN acc ELSE Append(acc, b))

\* the faults that can strike a call whose clean run is r0: the allocation,
\* if it allocates, and each of its element copies
Faults(r0) == (IF r0.allocs > 0 THEN {0 - 1} ELSE {}) \cup 0..r0.copies
Thr(j) == IF j > 0 THEN j ELSE 0
AFail(j) == j < 0

\* the call Op runs, clean or with one fault; its result becomes the program
\* state and the temporaries are gone
Call(Op(_), op, who, other, p, q, v) ==
  /\ last.op = "none"
  /\ \E r0 \in {Op(Start(0, FALSE))} : \E j \in Faults(r0) :
     \E s \in {IF j = 0 THEN r0 ELSE Op(Start(Thr(j), AFail(j)))} :
     \E ord \in {AddrOrder(s, 1, <<>>)} :
       /\ inst' = [i \in Slots |->
                     IF s.inst[i].is_small_ \/ s.inst[i].buf_ = NullBuf THEN s.inst[i]
                     ELSE [s.inst[i] EXCEPT !.buf_ = CHOOSE n \in 1..Len(ord) : ord[n] = @]]
       /\ heap' = [b \in HeapDom |-> IF b \in 1..Len(ord) THEN s.heap[ord[b]] ELSE FreeBuf]
       /\ err' = IF \E t \in AllInst \ Slots : s.inst[t].live
                 THEN "temporary_alive" ELSE s.err
       /\ UNCHANGED SMALL_SIZE
       /\ last' = [op |-> op, who |-> who, other |-> other, p |-> p, q |-> q, v |-> v,
                   fault |-> j, exc |-> s.exc, copies |-> s.copies,
                   destroyed |-> s.destroyed,
                   allocs |-> s.allocs, frees |-> s.frees,
                   pre |-> [inst |-> inst, heap |-> heap]]

\* socow_vector<T, n> for an n of ns; every instance of S has been
\* default-constructed (line 59)
InitOver(S, ns) ==
  /\ SMALL_SIZE \in ns
  /\ inst = [i \in Slots |-> IF i \in S THEN EmptyInst ELSE DeadInst]
  /\ heap = [b \in HeapDom |-> FreeBuf]
  /\ err = "ok"
  /\ last = NoCall

Return ==
  /\ last.op # "none"
  /\ last' = NoCall
  /\ UNCHANGED <<SMALL_SIZE, inst, heap, err>>

DefaultConstruct(i) ==
  /\ ~Live(i)
  /\ Call(LAMBDA s : [s EXCEPT !.inst[i] = EmptyInst], "ctor", i, 0, 0, 0, 0)

CopyConstruct(a, b) ==
  /\ ~Live(a) /\ Live(b)
  /\ Call(LAMBDA s : copy_ctor(s, a, b), "copy_ctor", a, b, 0, 0, 0)

Destroy(i) ==
  /\ Live(i)
  /\ Call(LAMBDA s : dtor(s, i), "dtor", i, 0, 0, 0, 0)

Assign(a, b) ==
  /\ Live(a) /\ Live(b)
  /\ Call(LAMBDA s : operator_assign(s, a, b), "assign", a, b, 0, 0, 0)

Swap(a, b) ==
  /\ Live(a) /\ Live(b)
  /\ Call(LAMBDA s : swap(s, a, b), "swap", a, b, 0, 0, 0)

\* growth stays within the bounds of the model
MayGrow(i, ms, mc) ==
  /\ inst[i].size_ < ms
  /\ (inst[i].is_small_ /\ inst[i].size_ = SMALL_SIZE) => SMALL_SIZE * 2 <= mc
  /\ (~inst[i].is_small_ /\ inst[i].size_ = heap[inst[i].buf_].capacity_)
        => heap[inst[i].buf_].capacity_ * 2 <= mc

Insert(i, p, v, ms, mc) ==
  /\ Live(i) /\ p <= inst[i].size_ /\ MayGrow(i, ms, mc)
  /\ Call(LAMBDA s : insert(s, i, p, v), "insert", i, 0, p, 0, v)

InsertSelf(i, p, k, ms, mc) ==
  /\ Live(i) /\ p <= inst[i].size_ /\ k < inst[i].size_ /\ MayGrow(i, ms, mc)
  /\ Call(LAMBDA s : insert_self(s, i, p, k), "insert_self", i, 0, p, k, 0)

PushBack(i, v, ms, mc) ==
  /\ Live(i) /\ MayGrow(i, ms, mc)
  /\ Call(LAMBDA s : push_back(s, i, v), "push_back", i, 0, 0, 0, v)

Erase(i, l, r) ==
  /\ Live(i) /\ l <= r /\ r <= inst[i].size_
  /\ Call(LAMBDA s : erase(s, i, l, r), "erase", i, 0, l, r, 0)

PopBack(i) ==
  /\ Live(i) /\ inst[i].size_ > 0
  /\ Call(LAMBDA s : pop_back(s, i), "pop_back", i, 0, 0, 0, 0)

Reserve(i, c) ==
  /\ Live(i)
  /\ Call(LAMBDA s : reserve(s, i, c), "reserve", i, 0, c, 0, 0)

ShrinkToFit(i) ==
  /\ Live(i)
  /\ Call(LAMBDA s : shrink_to_fit(s, i), "shrink_to_fit", i, 0, 0, 0, 0)

Clear(i) ==
  /\ Live(i)
  /\ Call(LAMBDA s : clear(s, i), "clear", i, 0, 0, 0, 0)

\* non-const data() / begin() / end() / operator[] / front() / back(), read only
MutableData(i) ==
  /\ Live(i)
  /\ Call(LAMBDA s : data(s, i), "data", i, 0, 0, 0, 0)

SubscriptStore(i, k, v) ==
  /\ Live(i) /\ k < inst[i].size_
  /\ Call(LAMBDA s : subscript_store(s, i, k, v), "store", i, 0, k, 0, v)

\* size(), capacity(), empty(), const data()/begin()/end()/operator[]/front()/back()
ConstAccess(i) ==
  /\ Live(i)
  /\ Call(LAMBDA s : s, "const_access", i, 0, 0, 0, 0)

\* the calls on the instances of S, vectors up to ms elements, buffers up to mc
NextOver(S, ms, mc) ==
  \/ Return
  \/ \E i \in S : DefaultConstruct(i)
  \/ \E a, b \in S : CopyConstruct(a, b)
  \/ \E i \in S : Destroy(i)
  \/ \E a, b \in S : Assign(a, b)
  \/ \E a, b \in S : Swap(a, b)
  \/ \E i \in S, p \in 0..ms, v \in Val : Insert(i, p, v, ms, mc)
  \/ \E i \in S, p \in 0..ms, k \in 0..ms : InsertSelf(i, p, k, ms, mc)
  \/ \E i \in S, v \in Val : PushBack(i, v, ms, mc)
  \/ \E i \in S, l \in 0..ms, r \in 0..ms : Erase(i, l, r)
  \/ \E i \in S : PopBack(i)
  \/ \E i \in S, c \in 0..mc : Reserve(i, c)
  \/ \E i \in S : ShrinkToFit(i)
  \/ \E i \in S : Clear(i)
  \/ \E i \in S : MutableData(i)
  \/ \E i \in S, k \in 0..ms, v \in Val : SubscriptStore(i, k, v)
  \/ \E i \in S : ConstAccess(i)

\* three instances, short vectors
Init == InitOver(Slots, {SmallSize})
Next == NextOver(Slots, MaxSize, MaxCap)
Spec == Init /\ [][Next]_vars

\* two instances, longer vectors, every inline capacity up to DeepSmall: a
\* full heap buffer can double and inline storage holds several elements
InitDeep == InitOver(1..DeepInst, 1..DeepSmall)
NextDeep == NextOver(1..DeepInst, DeepSize, DeepCap)
SpecDeep == InitDeep /\ [][NextDeep]_vars

\* =========================================================== properties
\* the program state now, and the one the recorded call started from
Cur == [inst |-> inst, heap |-> heap]
Pre == last.pre

IsBig(st, i) == st.inst[i].live /\ ~st.inst[i].is_small_
\* what size(), capacity() and const operator[] report
Elems(st, i) == Slice(cdata(st, i), 0, size(st, i))
Obs(st, i) == [size |-> size(st, i), capacity |-> capacity(st, i), elems |-> Elems(st, i)]
View(st, i) ==
  [live |-> st.inst[i].live, small |-> st.inst[i].is_small_, size |-> size(st, i),
   capacity |-> capacity(st, i), elems |-> Elems(st, i)]
RefCount(st, i) == st.heap[st.inst[i].buf_].ref_count_
SameBuf(st, a, b) == IsBig(st, a) /\ IsBig(st, b) /\ st.inst[a].buf_ = st.inst[b].buf_
Owners(st, b) == {i \in Slots : IsBig(st, i) /\ st.inst[i].buf_ = b}
Unchanged == inst = Pre.inst /\ heap = Pre.heap

Mutators ==
  {"push_back", "pop_back", "insert", "insert_self", "erase", "clear", "reserve", "shrink_to_fit",
   "assign", "swap", "data", "store"}
\* the instances a call is applied to as a mutator
Mutated == {last.who} \cup (IF last.op = "swap" THEN {last.other} ELSE {})

\* C1: after every call, size() <= capacity() for every instance.
C1_SizeWithinCapacity ==
  \A i \in Slots : inst[i].live => size(Cur, i) <= capacity(Cur, i)

\* an element was inserted into a heap buffer that was full
C1_Witness ==
  /\ last.op \in {"insert", "push_back"} /\ last.exc = "none"
  /\ IsBig(Pre, last.who) /\ size(Pre, last.who) = capacity(Pre, last.who)
  /\ size(Cur, last.who) = size(Pre, last.who) + 1

\* C2: a mutating call on b leaves every instance that shared b's buffer
\* with its size, capacity and elements, and no call constructs, destroys or
\* swaps a slot of a buffer whose ref_count is above 1.
C2_CopyOnWriteIsolation ==
  /\ err # "shared_write"
  /\ last.op \in Mutators =>
       \A a \in Slots \ Mutated :
         SameBuf(Pre, a, last.who) => View(Cur, a) = View(Pre, a)

\* b shared a buffer with a and was swapped with a third instance that
\* held other elements
C2_Witness ==
  /\ last.op = "swap" /\ last.exc = "none"
  /\ \E a \in Slots \ Mutated : SameBuf(Pre, a, last.who)
  /\ Elems(Cur, last.who) # Elems(Pre, last.who)

\* C3: copy-construction or copy-assignment from a Big source copies no
\* element: target and source end on the same buffer with the same size and
\* capacity, and the source reports what it reported before.
C3_CopyFromBigShares ==
  (last.op \in {"copy_ctor", "assign"} /\ last.who # last.other /\ IsBig(Pre, last.other)) =>
     /\ last.exc = "none" /\ last.copies = 0 /\ last.allocs = 0
     /\ SameBuf(Cur, last.who, last.other)
     /\ Obs(Cur, last.who) = Obs(Cur, last.other)
     /\ View(Cur, last.other) = View(Pre, last.other)

\* a source longer than the inline capacity has just been copied
C3_Witness ==
  /\ last.op = "copy_ctor" /\ IsBig(Pre, last.other)
  /\ size(Pre, last.other) > SMALL_SIZE
  /\ SameBuf(Cur, last.who, last.other)

\* C4: between calls, failed ones included, every live buffer's ref_count is
\* the number of live Big instances that point to it and is at least 1, no
\* instance points to a freed buffer, and nothing was freed twice or leaked.
C4_RefCountAccurate ==
  /\ err = "ok"
  /\ \A b \in BufIds : heap[b].alive =>
       /\ heap[b].ref_count_ = Cardinality(Owners(Cur, b))
       /\ heap[b].ref_count_ >= 1
  /\ \A i \in Slots : IsBig(Cur, i) => heap[inst[i].buf_].alive

\* a call on one of the instances that all share one buffer has failed on
\* an element copy and has freed its scratch buffer
C4_Witness ==
  /\ last.exc = "copy" /\ last.allocs = 1 /\ last.frees = 1
  /\ IsBig(Cur, last.who) /\ RefCount(Cur, last.who) = NumInst

\* C5: a call of operator=, non-const data(), reserve, shrink_to_fit,
\* insert, push_back, erase or pop_back that ends by a throwing element copy
\* leaves the whole program state as it was, has destroyed every element it
\* had constructed and has freed every buffer it had allocated.
StrongOps ==
  {"assign", "data", "store", "reserve", "shrink_to_fit", "insert", "insert_self", "push_back",
   "erase", "pop_back"}
C5_StrongGuaranteeOnCopyThrow ==
  (last.op \in StrongOps /\ last.exc = "copy") =>
     /\ Unchanged
     /\ err = "ok"
     /\ last.destroyed = last.copies - 1
     /\ last.frees = last.allocs

\* the third copy into a scratch buffer threw
C5_Witness ==
  /\ last.op \in StrongOps /\ last.exc = "copy"
  /\ last.copies = 3 /\ last.allocs = 1

\* C6: a call whose allocation fails ends by that failure and leaves the
\* whole program state (modes, buffers, ref_counts, sizes, elements) as it was.
C6_AllocFailureLeavesState ==
  last.fault < 0 =>
     /\ last.exc = "alloc"
     /\ Unchanged
     /\ err = "ok"

\* the allocation of an erase on a shared instance failed
C6_Witness ==
  /\ last.op = "erase" /\ last.exc = "alloc" /\ last.p < last.q
  /\ IsBig(Cur, last.who) /\ RefCount(Cur, last.who) > 1

\* C7: after a successful a = b, a reports b's former size, elements, mode
\* and capacity and b is unchanged; a = a changes nothing.
C7_AssignCopiesSource ==
  (last.op = "assign" /\ last.exc = "none") =>
     /\ View(Cur, last.who) = View(Pre, last.other)
     /\ View(Cur, last.other) = View(Pre, last.other)
     /\ last.who = last.other => Unchanged

\* a non-empty Small target took the elements of a longer Small source
C7_Witness ==
  /\ last.op = "assign" /\ last.exc = "none"
  /\ Pre.inst[last.who].is_small_ /\ Pre.inst[last.other].is_small_
  /\ 0 < size(Pre, last.who) /\ size(Pre, last.who) < size(Pre, last.other)
  /\ Elems(Pre, last.who) # Slice(Elems(Pre, last.other), 0, size(Pre, last.who))

\* C8: after a successful a.swap(b), each holds the other's former elements,
\* size and capacity, no other instance changes and no buffer is leaked.
C8_SwapExchanges ==
  (last.op = "swap" /\ last.exc = "none") =>
     /\ Obs(Cur, last.who) = Obs(Pre, last.other)
     /\ Obs(Cur, last.other) = Obs(Pre, last.who)
     /\ \A c \in Slots \ {last.who, last.other} : View(Cur, c) = View(Pre, c)
     /\ \A b \in BufIds : heap[b].alive => Owners(Cur, b) # {}

\* a longer Small instance was swapped with a shorter Big one whose buffer
\* a third instance shares
C8_Witness ==
  /\ last.op = "swap" /\ last.exc = "none"
  /\ Pre.inst[last.who].is_small_ /\ IsBig(Pre, last.other)
  /\ size(Pre, last.who) > size(Pre, last.other)
  /\ \E c \in Slots \ {last.who, last.other} : SameBuf(Pre, c, last.other)

\* C9: a second a.swap(b) right after a successful one gives both back
\* their size, capacity, mode and elements.
C9_SwapTwiceRestores ==
  (last.op = "swap" /\ last.exc = "none") =>
     LET r == swap(Start(0, FALSE), last.who, last.other)
     IN  /\ r.exc = "none"
         /\ View(r, last.who) = View(Pre, last.who)
         /\ View(r, last.other) = View(Pre, last.other)

\* two instances in different modes and with different contents were swapped
C9_Witness ==
  /\ last.op = "swap" /\ last.exc = "none"
  /\ IsBig(Pre, last.who) /\ Pre.inst[last.other].is_small_
  /\ Elems(Pre, last.who) # Elems(Pre, last.other)
  /\ IsBig(Cur, last.other)

\* C10: erase(begin() + p) right after a successful insert(begin() + p, v)
\* gives back the original elements and size.
C10_InsertEraseRestores ==
  (last.op = "insert" /\ last.exc = "none") =>
     LET r == erase(Start(0, FALSE), last.who, last.p, last.p + 1)
     IN  /\ r.exc = "none"
         /\ Elems(r, last.who) = Elems(Pre, last.who)
         /\ size(r, last.who) = size(Pre, last.who)

\* a value was inserted in the middle of a shared Big instance
C10_Witness ==
  /\ last.op = "insert" /\ last.exc = "none"
  /\ IsBig(Pre, last.who) /\ RefCount(Pre, last.who) > 1
  /\ 0 < last.p /\ last.p < size(Pre, last.who)

\* C11: reserve(c) with c > size() followed by shrink_to_fit() leaves the
\* instance Small with capacity N when size() <= N and Big with capacity()
\* = size() otherwise, with the size and elements it had before reserve.
C11_ReserveShrinkMinimal ==
  (last.op = "reserve" /\ last.exc = "none" /\ last.p > size(Pre, last.who)) =>
     LET r == shrink_to_fit(Start(0, FALSE), last.who)
     IN  /\ r.exc = "none"
         /\ size(r, last.who) = size(Pre, last.who)
         /\ Elems(r, last.who) = Elems(Pre, last.who)
         /\ size(r, last.who) <= SMALL_SIZE =>
              r.inst[last.who].is_small_ /\ capacity(r, last.who) = SMALL_SIZE
         /\ size(r, last.who) > SMALL_SIZE =>
              ~r.inst[last.who].is_small_ /\ capacity(r, last.who) = size(r, last.who)

\* reserve has grown a shared Big instance that fits the inline storage
C11_Witness ==
  /\ last.op = "reserve" /\ last.exc = "none" /\ last.p > SMALL_SIZE
  /\ IsBig(Pre, last.who) /\ RefCount(Pre, last.who) > 1
  /\ 0 < size(Pre, last.who) /\ size(Pre, last.who) <= SMALL_SIZE
  /\ IsBig(Cur, last.who) /\ capacity(Cur, last.who) = last.p

\* C12: after clear() size() is 0.  A shared instance becomes Small, its
\* buffer loses exactly one reference and no element, and a push_back on it
\* leaves the other sharers' size and elements; a private instance keeps its
\* mode and capacity and destroys exactly size() elements.
C12_ClearReleasesOrDestroys ==
  last.op = "clear" =>
     /\ last.exc = "none"
     /\ size(Cur, last.who) = 0
     /\ (IsBig(Pre, last.who) /\ RefCount(Pre, last.who) > 1) =>
          /\ inst[last.who].is_small_ /\ capacity(Cur, last.who) = SMALL_SIZE
          /\ last.destroyed = 0 /\ last.frees = 0
          /\ \A a \in Slots \ {last.who} : SameBuf(Pre, a, last.who) =>
               /\ RefCount(Cur, a) = RefCount(Pre, a) - 1
               /\ View(Cur, a) = View(Pre, a)
               /\ \A v \in Val :
                    View(push_back(Start(0, FALSE), last.who, v), a) = View(Pre, a)
     /\ ~(IsBig(Pre, last.who) /\ RefCount(Pre, last.who) > 1) =>
          /\ inst[last.who].is_small_ = Pre.inst[last.who].is_small_
          /\ capacity(Cur, last.who) = capacity(Pre, last.who)
          /\ last.destroyed = size(Pre, last.who)

\* a non-empty instance that shared its buffer was cleared
C12_Witness ==
  /\ last.op = "clear"
  /\ IsBig(Pre, last.who) /\ RefCount(Pre, last.who) > 1 /\ size(Pre, last.who) > 0
  /\ inst[last.who].is_small_

\* C13: a const accessor changes no instance and no buffer.  Non-const
\* data() on a shared instance gives it a buffer of its own with ref_count 1,
\* the same capacity and the same elements, and takes one reference from the
\* old buffer; on a Small or private Big instance it changes nothing.
C13_AccessGate ==
  /\ last.op = "const_access" =>
       Unchanged /\ last.exc = "none" /\ last.copies = 0 /\ last.allocs = 0
  /\ (last.op = "data" /\ last.exc = "none") =>
       IF IsBig(Pre, last.who) /\ RefCount(Pre, last.who) > 1
       THEN /\ IsBig(Cur, last.who) /\ RefCount(Cur, last.who) = 1
            /\ Obs(Cur, last.who) = Obs(Pre, last.who)
            /\ \A a \in Slots \ {last.who} : SameBuf(Pre, a, last.who) =>
                 /\ ~SameBuf(Cur, a, last.who)
                 /\ RefCount(Cur, a) = RefCount(Pre, a) - 1
                 /\ View(Cur, a) = View(Pre, a)
       ELSE Unchanged /\ last.copies = 0 /\ last.allocs = 0

\* non-const data() was called on a shared instance with spare capacity
C13_Witness ==
  /\ last.op = "data" /\ last.exc = "none"
  /\ IsBig(Pre, last.who) /\ RefCount(Pre, last.who) > 1
  /\ 0 < size(Pre, last.who) /\ size(Pre, last.who) < capacity(Pre, last.who)
  /\ RefCount(Cur, last.who) = 1

\* C14: a successful insert(begin() + p, v) yields old[0..p) ++ [v] ++
\* old[p..size()), one element more, in storage no other instance shares;
\* push_back(v) is the case p = size(); v may be an element of the vector
\* itself, and then it is the value that element had before the call.
C14_InsertPlacesValue ==
  (last.op \in {"insert", "insert_self", "push_back"} /\ last.exc = "none") =>
     LET old == Elems(Pre, last.who)
         p == IF last.op = "push_back" THEN Len(old) ELSE last.p
         v == IF last.op = "insert_self" THEN old[last.q + 1] ELSE last.v
     IN  /\ Elems(Cur, last.who) = Slice(old, 0, p) \o <<v>> \o Slice(old, p, Len(old))
         /\ size(Cur, last.who) = Len(old) + 1
         /\ ~shared_buf(Cur, last.who)

\* an element of the vector was inserted in place before its own position,
\* ahead of an element with another value
C14_Witness ==
  /\ last.op = "insert_self" /\ last.exc = "none" /\ last.allocs = 0
  /\ last.p < last.q
  /\ Elems(Pre, last.who)[last.p + 1] # Elems(Pre, last.who)[last.q + 1]
  /\ size(Cur, last.who) = size(Pre, last.who) + 1

\* C15: a successful erase(begin() + l, begin() + r) yields old[0..l) ++
\* old[r..size()), r - l elements fewer, in storage no other instance
\* shares; a private instance keeps mode and capacity and destroys exactly
\* r - l elements; a shared one with l < r ends private Big with the same
\* capacity.  pop_back() is the case l = size() - 1, r = size().
C15_EraseRemovesRange ==
  (last.op \in {"erase", "pop_back"} /\ last.exc = "none") =>
     LET old == Elems(Pre, last.who)
         l == IF last.op = "pop_back" THEN Len(old) - 1 ELSE last.p
         r == IF last.op = "pop_back" THEN Len(old) ELSE last.q
         wasShared == IsBig(Pre, last.who) /\ RefCount(Pre, last.who) > 1
     IN  /\ Elems(Cur, last.who) = Slice(old, 0, l) \o Slice(old, r, Len(old))
         /\ size(Cur, last.who) = Len(old) - (r - l)
         /\ ~shared_buf(Cur, last.who)
         /\ ~wasShared =>
              /\ inst[last.who].is_small_ = Pre.inst[last.who].is_small_
              /\ capacity(Cur, last.who) = capacity(Pre, last.who)
              /\ last.destroyed = r - l /\ last.allocs = 0
         /\ (wasShared /\ l < r) =>
              /\ IsBig(Cur, last.who) /\ RefCount(Cur, last.who) = 1
              /\ capacity(Cur, last.who) = capacity(Pre, last.who)

\* a range strictly inside a shared instance was erased
C15_Witness ==
  /\ last.op = "erase" /\ last.exc = "none"
  /\ IsBig(Pre, last.who) /\ RefCount(Pre, last.who) > 1
  /\ 0 < last.p /\ last.p < last.q /\ last.q < size(Pre, last.who)
  /\ Elems(Pre, last.who)[last.p + 1] # Elems(Pre, last.who)[last.q + 1]
  /\ size(Cur, last.who) = size(Pre, last.who) - (last.q - last.p)

DemotionOps ==
  {"insert", "insert_self", "push_back", "erase", "pop_back", "reserve",
   "shrink_to_fit", "data"}
WasShared == IsBig(Pre, last.who) /\ RefCount(Pre, last.who) > 1
EndsPrivateBig == IsBig(Cur, last.who) /\ RefCount(Cur, last.who) = 1

\* C17 as stated: a successful mutator on a shared instance ends Small when
\* the resulting size fits in N (and no capacity above N was asked for),
\* and private Big otherwise; on an instance that is not shared it works on
\* the instance's own storage.
C17_DemotionRule ==
  (last.op \in DemotionOps /\ last.exc = "none") =>
     /\ (WasShared /\ size(Cur, last.who) <= SMALL_SIZE
           /\ ~(last.op = "reserve" /\ last.p > SMALL_SIZE)) =>
          inst[last.who].is_small_
     /\ (WasShared /\ size(Cur, last.who) > SMALL_SIZE) => EndsPrivateBig
     /\ ~WasShared => ~shared_buf(Cur, last.who)

\* C17, amended: on a shared instance only reserve(c) with size() < c <= N
\* and shrink_to_fit() with size() <= N end Small; insert, push_back, erase,
\* pop_back and non-const data() end private Big whatever the size, as do
\* reserve(c) with c > size() and c > N (capacity c) and shrink_to_fit()
\* with N < size() < capacity() (capacity size()); reserve(c) with c <=
\* size() and shrink_to_fit() with size() = capacity() leave it shared.  On
\* an instance that is not shared, erase, pop_back, data() and an insert
\* with room keep the mode and the buffer and allocate nothing.
C17_DemotionOnlyByReserveAndShrink ==
  (last.op \in DemotionOps /\ last.exc = "none") =>
     LET n == size(Pre, last.who)
         cap == capacity(Pre, last.who)
     IN  /\ WasShared =>
              /\ (last.op = "reserve" /\ n < last.p /\ last.p <= SMALL_SIZE) =>
                   inst[last.who].is_small_
              /\ (last.op = "reserve" /\ n < last.p /\ last.p > SMALL_SIZE) =>
                   EndsPrivateBig /\ capacity(Cur, last.who) = last.p
              /\ (last.op = "reserve" /\ last.p <= n) => Unchanged
              /\ (last.op = "shrink_to_fit" /\ n <= SMALL_SIZE) =>
                   inst[last.who].is_small_
              /\ (last.op = "shrink_to_fit" /\ SMALL_SIZE < n /\ n < cap) =>
                   EndsPrivateBig /\ capacity(Cur, last.who) = n
              /\ (last.op = "shrink_to_fit" /\ n = cap) => Unchanged
              /\ last.op \in {"insert", "insert_self", "push_back", "erase", "pop_back", "data"} =>
                   EndsPrivateBig
         /\ (~WasShared /\ (last.op \in {"erase", "pop_back", "data"}
                             \/ (last.op \in {"insert", "insert_self", "push_back"} /\ n < cap))) =>
              /\ inst[last.who].is_small_ = Pre.inst[last.who].is_small_
              /\ inst[last.who].buf_ = Pre.inst[last.who].buf_
              /\ last.allocs = 0

\* an erase on a shared instance left a size that fits in N, in a Big buffer
C17_Witness ==
  /\ last.op = "erase" /\ last.exc = "none" /\ last.p < last.q
  /\ WasShared
  /\ size(Cur, last.who) <= SMALL_SIZE /\ size(Cur, last.who) > 0
  /\ EndsPrivateBig

\* C18 as stated: erase(first, last) with first = last is a no-op on every
\* instance: it cannot fail, allocates nothing, copies nothing and leaves
\* every instance and every buffer as it was.
C18_EraseEmptyRangeNoOp ==
  (last.op = "erase" /\ last.p = last.q) =>
     /\ last.exc = "none"
     /\ last.allocs = 0 /\ last.copies = 0
     /\ Unchanged

\* C19: between calls every Big instance's size() is the number of
\* constructed elements of its buffer, so all instances on one buffer agree
\* on the size, and no release has destroyed another number of elements
\* than the buffer held.
C19_SizeAgreement ==
  /\ err \notin {"destroy_mismatch", "element_leak"}
  /\ \A i \in Slots : IsBig(Cur, i) => size(Cur, i) = Len(heap[inst[i].buf_].data_)
  /\ \A a, b \in Slots : SameBuf(Cur, a, b) => size(Cur, a) = size(Cur, b)

\* an assignment released the last reference of a non-empty buffer and left
\* the target on a buffer with another number of elements
C19_Witness ==
  /\ last.op = "assign" /\ last.exc = "none"
  /\ IsBig(Pre, last.who) /\ RefCount(Pre, last.who) = 1 /\ size(Pre, last.who) > 0
  /\ IsBig(Pre, last.other) /\ size(Pre, last.other) # size(Pre, last.who)
  /\ last.frees = 1 /\ last.destroyed = size(Pre, last.who)
  /\ SameBuf(Cur, last.who, last.other)

\* C20 as stated: a swap with at least one Big operand that ends by a
\* throwing element copy leaves both operands with their mode, size,
\* capacity and elements.
C20_SwapFallbackStrongGuarantee ==
  (last.op = "swap" /\ last.exc = "copy"
     /\ (IsBig(Pre, last.who) \/ IsBig(Pre, last.other))) =>
     /\ View(Cur, last.who) = View(Pre, last.who)
     /\ View(Cur, last.other) = View(Pre, last.other)

====
